---- MODULE Spec2Model ----
(***************************************************************************)
(* EduRunner: the gameplay loop (Game.ts), the portal field (Portal.ts),   *)
(* the player lanes (Player.ts), the score tracker (ScoreManager.ts) and   *)
(* the pieces of the UI (UIManager.ts) that decide which handler a user    *)
(* can invoke.                                                             *)
(*                                                                         *)
(* Lengths along the track are kept in thousandths of a scene unit, so     *)
(* that speed * (deltaTime / 1000) is exact for a deltaTime in             *)
(* milliseconds.  JavaScript arrays are 0-based; a lane or index i of the  *)
(* code is element i + 1 of the sequence that models the array.            *)
(***************************************************************************)
EXTENDS Integers, Sequences, FiniteSets, TLC

VARIABLES
    \* Game
    state, uiScreen, questions, currentQuestionIndex, nextPortalSpawnZ,
    activePortalSet, waitingForNextQuestion,
    currentTopic, currentDifficulty, questionsPerGame,
    settleTimers, pendingFetches,
    \* Player
    currentLane, isMoving,
    \* Track
    speed,
    \* PortalManager and the Portal objects it created
    activePortals, portalHeap,
    \* ScoreManager
    currentScore, totalQuestions, answeredQuestions, wrongAnswers,
    smTopic, smDifficulty,
    \* localStorage and the clock read by Date.now()
    storage, now,
    \* observations of the run (not program state)
    startCalls, sessionSaves, sessionResults, savedLog, lastSaved,
    \* harness of the pure functions
    shuffleIn, shuffleOut,
    \* ChatService, the exchanges it has in flight and the callbacks it made
    conversationHistory, isStreaming, exchanges, chatCalls,
    \* one call of QuestionService.fetchQuestions: its inputs and its outcome
    useOfflineMode, fetchIn, fetchOut,
    \* one request to the proxy worker and its response
    proxyIn, proxyOut

gameVars == <<state, uiScreen, questions, currentQuestionIndex, nextPortalSpawnZ,
              activePortalSet, waitingForNextQuestion,
              currentTopic, currentDifficulty, questionsPerGame,
              settleTimers, pendingFetches>>
playerVars == <<currentLane, isMoving>>
portalVars == <<activePortals, portalHeap>>
scoreVars == <<currentScore, totalQuestions, answeredQuestions, wrongAnswers,
               smTopic, smDifficulty>>
storeVars == <<storage, now>>
obsVars == <<startCalls, sessionSaves, sessionResults, savedLog, lastSaved>>
shuffleVars == <<shuffleIn, shuffleOut>>
chatVars == <<conversationHistory, isStreaming, exchanges, chatCalls>>
fetchVars == <<useOfflineMode, fetchIn, fetchOut>>
proxyVars == <<proxyIn, proxyOut>>
serviceVars == <<chatVars, fetchVars, proxyVars>>

vars == <<gameVars, playerVars, speed, portalVars, scoreVars, storeVars,
          obsVars, shuffleVars, serviceVars>>

----------------------------------------------------------------------------
(* Bounds of the model *)

MaxQuestions == 2
MaxStartCalls == 2
MaxSpeedSteps == 1
MaxAnswers == 40
MaxSaves == 22
MaxHistoryAnswers == 2
MaxRecordSaves == 1

(* Program constants *)

Milli == 1000
FirstSpawnZ == 70
PortalSpacing == 45
DespawnDistance == -15
PlayerZ == 5
DefaultSpeed == 12
MinSpeed == 6
MaxSpeed == 42
SpeedStep == 2
MAX_RECENT_SCORES == 20
DefaultQuestionCount == 10
MantissaBits == 53

----------------------------------------------------------------------------
(* Portal.ts: the answer shuffle and the spawn of a PortalSet *)

\* The answer texts and question texts the inputs are drawn from.
Texts == {"a", "b", "c"}

\* [result[i], result[j]] = [result[j], result[i]], i and j 0-based
Swap(result, i, j) ==
    [k \in DOMAIN result |->
        IF k = i + 1 THEN result[j + 1]
        ELSE IF k = j + 1 THEN result[i + 1]
        ELSE result[k]]

\* The values Math.floor(Math.random() * (i + 1)) can take in the passes
\* i = n - 1 .. 1 of the loop: one j in 0..i for each i.
SwapChoices(n) == {js \in [1 .. (n - 1) -> 0 .. (n - 1)] : \A i \in 1 .. (n - 1) : js[i] <= i}

\* A remap that follows the correct answer only when it sits at i: the
\* variant C2 is measured against.
NewCorrectIndexOneWay(correctIndex, i, j) ==
    IF correctIndex = i THEN j ELSE correctIndex

\* if (correctIndex === i) newCorrectIndex = j;
\* else if (correctIndex === j) newCorrectIndex = i;
NewCorrectIndex(correctIndex, i, j) ==
    IF correctIndex = i THEN j
    ELSE IF correctIndex = j THEN i
    ELSE correctIndex

RECURSIVE ShuffleLoop(_, _, _, _)
\* The passes i, i - 1, .. 1 of the Fisher-Yates loop; the code assigns
\* correctIndex = newCorrectIndex at the end of every pass.
ShuffleLoop(result, correctIndex, i, js) ==
    IF i <= 0 THEN [answers |-> result, correctLane |-> correctIndex]
    ELSE ShuffleLoop(Swap(result, i, js[i]),
                     NewCorrectIndex(correctIndex, i, js[i]),
                     i - 1, js)

ShuffleAnswers(answers, correctIndex, js) ==
    ShuffleLoop(answers, correctIndex, Len(answers) - 1, js)

\* A portal marked correct by its text instead of its lane: the variant C1
\* is measured against.
MakePortalByText(shuffled, i) ==
    [answerText |-> shuffled.answers[i + 1],
     isCorrect |-> (shuffled.answers[i + 1] = shuffled.answers[shuffled.correctLane + 1]),
     laneIndex |-> i]

\* new Portal(...) for i = 0, 1, 2
MakePortal(shuffled, i) ==
    [answerText |-> shuffled.answers[i + 1],
     isCorrect |-> (i = shuffled.correctLane),
     laneIndex |-> i]

\* What spawnPortalSet returns; the three portals stand at zPosition.
SpawnPortalSet(question, zPosition, js) ==
    LET shuffled == ShuffleAnswers(question.answers, question.correctIndex, js)
    IN  [portals |-> [k \in 1 .. 3 |-> MakePortal(shuffled, k - 1)],
         displayAnswers |-> shuffled.answers,
         z |-> zPosition]

----------------------------------------------------------------------------
(* IEEE-754 double arithmetic, as far as getPercentage uses it: the        *)
(* quotient of two small naturals, its product by 100 and Math.round.      *)
(* A significand is a natural below 2^80 written in base 2^20, least       *)
(* significant limb first; [sig, frac] stands for the double sig * 2^-frac.*)

Limb == 2 ^ 20

\* the number of bits of a natural below 2^20 (0 for 0)
BitLenSmall(n) == CHOOSE k \in 0 .. 20 : n < 2 ^ k /\ (k = 0 \/ n >= 2 ^ (k - 1))

BitLen(x) ==
    IF x[4] > 0 THEN 60 + BitLenSmall(x[4])
    ELSE IF x[3] > 0 THEN 40 + BitLenSmall(x[3])
    ELSE IF x[2] > 0 THEN 20 + BitLenSmall(x[2])
    ELSE BitLenSmall(x[1])

\* x + k for a natural k below 2^20
AddSmall(x, k) ==
    LET v1 == x[1] + k
        v2 == x[2] + (v1 \div Limb)
        v3 == x[3] + (v2 \div Limb)
        v4 == x[4] + (v3 \div Limb)
    IN  <<v1 % Limb, v2 % Limb, v3 % Limb, v4>>

\* x * k for a natural k below 2^10
MulSmall(x, k) ==
    LET v1 == x[1] * k
        v2 == x[2] * k + (v1 \div Limb)
        v3 == x[3] * k + (v2 \div Limb)
        v4 == x[4] * k + (v3 \div Limb)
    IN  <<v1 % Limb, v2 % Limb, v3 % Limb, v4>>

\* x rounded to MantissaBits significant bits, to nearest and a tie to even;
\* sticky says that the exact value lies above x.  At most 19 bits are dropped.
RoundToMantissa(x, sticky) ==
    LET d == BitLen(x) - MantissaBits
    IN  IF d <= 0 THEN x
        ELSE LET dropped == x[1] % (2 ^ d)
                 half == 2 ^ (d - 1)
                 odd == (x[1] \div (2 ^ d)) % 2 = 1
                 up == \/ dropped > half
                       \/ dropped = half /\ (sticky \/ odd)
                 kept == <<x[1] - dropped, x[2], x[3], x[4]>>
             IN  IF up THEN AddSmall(kept, 2 ^ d) ELSE kept

\* zeros between the binary point and the first 1 of s / a (0 < s < a)
LeadingZeros(s, a) == CHOOSE k \in 0 .. 30 : s * 2 ^ k < a /\ s * 2 ^ (k + 1) >= a

\* s / a as a double, for 0 < s < a < 2^11: long division of s * 2^(lz + 54)
\* by a, limb by limb, then the rounding of the 54-bit quotient
FloatDiv(s, a) ==
    LET lz == LeadingZeros(s, a)
        t3 == (s * 2 ^ lz) * 2 ^ 14
        t2 == (t3 % a) * Limb
        t1 == (t2 % a) * Limb
        q == <<t1 \div a, t2 \div a, t3 \div a, 0>>
    IN  [sig |-> RoundToMantissa(q, t1 % a # 0), frac |-> lz + MantissaBits + 1]

\* x * k as a double, for a double x and a natural k below 2^10
FloatMulSmall(x, k) ==
    [sig |-> RoundToMantissa(MulSmall(x.sig, k), FALSE), frac |-> x.frac]

\* floor(x / 2^n) for 40 <= n <= 60, when it is below 2^31
ShiftRight(x, n) == (x[3] \div (2 ^ (n - 40))) + x[4] * 2 ^ (60 - n)

\* Math.round of a double y, 0 <= y < 2^10: the nearest integer, a tie going up
MathRound(y) == ShiftRight(y.sig, y.frac) + (ShiftRight(y.sig, y.frac - 1) % 2)

----------------------------------------------------------------------------
(* ScoreManager.ts *)

\* getPercentage(): Math.round((currentScore / answeredQuestions) * 100)
Percentage(score, answered) ==
    IF answered = 0 THEN 0
    ELSE IF score = 0 THEN 0
    ELSE IF score = answered THEN 100
    ELSE MathRound(FloatMulSmall(FloatDiv(score, answered), 100))

GetPercentage == Percentage(currentScore, answeredQuestions)

IsGameComplete == answeredQuestions >= totalQuestions

\* startGame(topic, difficulty, questionCount)
SmStartGame(topic, difficulty, questionCount) ==
    /\ currentScore' = 0
    /\ totalQuestions' = questionCount
    /\ answeredQuestions' = 0
    /\ wrongAnswers' = <<>>
    /\ smTopic' = topic
    /\ smDifficulty' = difficulty

AddCorrect ==
    /\ currentScore' = currentScore + 1
    /\ answeredQuestions' = answeredQuestions + 1
    /\ UNCHANGED <<totalQuestions, wrongAnswers, smTopic, smDifficulty>>

\* addWrong without the answered count: the variant C5 is measured against.
AddWrongNoCount(question, yourAnswer, correctAnswer) ==
    /\ wrongAnswers' = Append(wrongAnswers,
            [question |-> question, yourAnswer |-> yourAnswer,
             correctAnswer |-> correctAnswer])
    /\ UNCHANGED <<currentScore, totalQuestions, answeredQuestions, smTopic, smDifficulty>>

AddWrong(question, yourAnswer, correctAnswer) ==
    /\ answeredQuestions' = answeredQuestions + 1
    /\ wrongAnswers' = Append(wrongAnswers,
            [question |-> question, yourAnswer |-> yourAnswer,
             correctAnswer |-> correctAnswer])
    /\ UNCHANGED <<currentScore, totalQuestions, smTopic, smDifficulty>>

\* What localStorage holds under STORAGE_KEY: nothing (NoData), the JSON text
\* of an array of records, a text JSON.parse rejects (Unparseable) or the
\* JSON text of something that is no array, such as {} (NotAnArray).
NoData == [kind |-> "null"]

Unparseable == [kind |-> "text"]

NotAnArray == [kind |-> "value"]

\* JSON.stringify(scores) of an array of GameScore records
Stringify(scores) == [kind |-> "array", items |-> scores]

\* loadAllScores(): whatever JSON.parse makes of the blob, [] when nothing
\* is stored, when getItem throws (readOk is FALSE) or when JSON.parse throws
LoadAllScores(blob, readOk) ==
    IF readOk /\ blob.kind = "array" THEN [isArray |-> TRUE, items |-> blob.items]
    ELSE IF readOk /\ blob.kind = "value" THEN [isArray |-> FALSE, items |-> <<>>]
    ELSE [isArray |-> TRUE, items |-> <<>>]

\* A history that is never cut: the variant C7 is measured against.
KeepAll(scores) == scores

\* if (scores.length > MAX_RECENT_SCORES) scores.length = MAX_RECENT_SCORES
Truncate(scores) ==
    IF Len(scores) > MAX_RECENT_SCORES THEN SubSeq(scores, 1, MAX_RECENT_SCORES)
    ELSE scores

\* A record whose percentage is taken over the question count of the session
\* instead of the answered count: the variant C19 is measured against.
GameScoreRecordOverTotal ==
    [topic |-> smTopic, difficulty |-> smDifficulty, score |-> currentScore,
     totalQuestions |-> totalQuestions,
     percentage |-> Percentage(currentScore, totalQuestions),
     timestamp |-> now, wrongAnswers |-> wrongAnswers]

\* the GameScore record saveGame builds; timestamp is Date.now()
GameScoreRecord ==
    [topic |-> smTopic, difficulty |-> smDifficulty, score |-> currentScore,
     totalQuestions |-> totalQuestions, percentage |-> GetPercentage,
     timestamp |-> now, wrongAnswers |-> wrongAnswers]

\* scores.unshift(gameScore)
Unshift(scores, gameScore) == <<gameScore>> \o scores

\* saveGame() throws: scores.unshift is no function when the stored blob
\* parsed to something that is no array
SaveGameThrows(readOk) == ~LoadAllScores(storage, readOk).isArray

\* saveGame(): the record is put in front of the stored list, the list is cut
\* to MAX_RECENT_SCORES and written back; a setItem that throws (writeOk is
\* FALSE) is caught.  The clock moves on between saves.
SaveGame(readOk, writeOk) ==
    /\ storage' = IF writeOk
                  THEN Stringify(Truncate(Unshift(LoadAllScores(storage, readOk).items,
                                                  GameScoreRecord)))
                  ELSE storage
    /\ now' = now + 1
    /\ savedLog' = Append(savedLog, GameScoreRecord)
    /\ lastSaved' = GameScoreRecord
    /\ sessionSaves' = sessionSaves + 1

\* saveGame() when scores.unshift throws: nothing is written or returned
SaveGameThrown ==
    /\ now' = now + 1
    /\ sessionSaves' = sessionSaves + 1
    /\ UNCHANGED <<storage, savedLog, lastSaved>>

----------------------------------------------------------------------------
(* Inputs of the game loop *)

\* QuestionService.ts: a Question is {question, answers, correctIndex}
Bank ==
    << [question |-> "q1", answers |-> <<"a", "a", "b">>, correctIndex |-> 1],
       [question |-> "q2", answers |-> <<"b", "c", "c">>, correctIndex |-> 0],
       [question |-> "q3", answers |-> <<"a", "b", "c">>, correctIndex |-> 1],
       [question |-> "q4", answers |-> <<"c", "b", "a">>, correctIndex |-> 2] >>

\* what fetchQuestions can resolve with: the batch may be empty
Batches == {SubSeq(Bank, 1, n) : n \in 0 .. MaxQuestions}

\* what the start button of the menu can pass to onStartGame
StartTopic == "math"

StartDifficulty == "easy"

StartRequests ==
    { [topic |-> StartTopic, difficulty |-> StartDifficulty, count |-> 5] }

\* engine.getDeltaTime() in milliseconds
DeltaTimes == {5000}

\* the draws of Math.random in shuffleAnswers that the game loop explores:
\* no swap at all, and a rotation of the three answers
GameSwaps == {js \in SwapChoices(3) : js[2] = js[1] + 1}

\* how localStorage behaves during one saveGame, as <<readOk, writeOk>>: it
\* works, setItem throws (quota), or every access throws (unavailable)
StorageOutcomes == {<<TRUE, TRUE>>, <<TRUE, FALSE>>, <<FALSE, FALSE>>}

Range(f) == {f[x] : x \in DOMAIN f}

----------------------------------------------------------------------------
(* Track.ts *)

\* setSpeed: Math.max(minSpeed, Math.min(maxSpeed, speed))
SetSpeed(v) ==
    LET capped == IF v < MaxSpeed THEN v ELSE MaxSpeed
    IN  IF capped > MinSpeed THEN capped ELSE MinSpeed

\* speed * (deltaTime / 1000), in thousandths of a unit
MoveDistance(trackSpeed, deltaTime) == trackSpeed * deltaTime

----------------------------------------------------------------------------
(* Portal.ts: PortalManager.  A Portal object lives in portalHeap while    *)
(* the manager or the game still refers to it; the three portals of a set  *)
(* share one entry, since they are created, moved and disposed together.   *)

NoPortals == 0

FreshId(heap) == CHOOSE n \in 1 .. (Cardinality(DOMAIN heap) + 1) : n \notin DOMAIN heap

\* objects nothing refers to any more are dropped
Collect(heap, list, active) ==
    [id \in {i \in DOMAIN heap : i \in Range(list) \/ i = active} |-> heap[id]]

\* update(deltaTime, speed), the positions: every portal of the manager
\* moves by moveDistance
MovePortals(heap, list, moveDistance) ==
    [id \in DOMAIN heap |->
        IF id \in Range(list) THEN [heap[id] EXCEPT !.z = @ - moveDistance]
        ELSE heap[id]]

\* update(deltaTime, speed), the list: a portal whose position before the
\* move was behind despawnDistance is disposed and spliced out
KeepPortals(heap, list) ==
    SelectSeq(list, LAMBDA id : ~(heap[id].z < DespawnDistance * Milli))

\* spawnPortalSet: the new portals are pushed on the manager's list
PushPortalSet(heap, list, question, zPosition, js) ==
    LET id == FreshId(heap)
        spawned == SpawnPortalSet(question, zPosition, js)
    IN  [heap |-> [i \in DOMAIN heap \cup {id} |->
                      IF i = id
                      THEN [z |-> zPosition, revealed |-> FALSE,
                            portals |-> spawned.portals]
                      ELSE heap[i]],
         list |-> Append(list, id),
         id |-> id]

\* reveal() on every portal of a set
Reveal(heap, id) == [heap EXCEPT ![id].revealed = TRUE]

----------------------------------------------------------------------------
(* Player.ts *)

\* moveLeft(): the lane is committed at once, the animation follows
MoveLeft ==
    /\ currentLane > 0 /\ ~isMoving
    /\ currentLane' = currentLane - 1
    /\ isMoving' = TRUE
    /\ UNCHANGED <<gameVars, speed, portalVars, scoreVars, storeVars, obsVars, shuffleVars, serviceVars>>

MoveRight ==
    /\ currentLane < 2 /\ ~isMoving
    /\ currentLane' = currentLane + 1
    /\ isMoving' = TRUE
    /\ UNCHANGED <<gameVars, speed, portalVars, scoreVars, storeVars, obsVars, shuffleVars, serviceVars>>

\* the callback given to beginAnimation in animateToLane
AnimationEnd ==
    /\ isMoving
    /\ isMoving' = FALSE
    /\ UNCHANGED <<currentLane, gameVars, speed, portalVars, scoreVars, storeVars,
                   obsVars, shuffleVars, serviceVars>>

----------------------------------------------------------------------------
(* Game.ts *)

Max(S) == CHOOSE x \in S : \A y \in S : y <= x

\* a || b on strings
OrElse(text, default) == IF text = "" THEN default ELSE text

\* the loop of handlePortalPassed: the last portal in the player's lane and
\* the last portal marked correct, as sets of positions (empty for null)
SelectedIdx(portals, playerLane) ==
    {k \in DOMAIN portals : portals[k].laneIndex = playerLane}

CorrectIdx(portals) == {k \in DOMAIN portals : portals[k].isCorrect}

\* A selected portal judged by its text instead of its isCorrect flag: the
\* variant C20 is measured against.
SelectedIsCorrectByText(portals, playerLane) ==
    /\ SelectedIdx(portals, playerLane) # {}
    /\ CorrectIdx(portals) # {}
    /\ portals[Max(SelectedIdx(portals, playerLane))].answerText =
           portals[Max(CorrectIdx(portals))].answerText

\* selectedPortal?.isCorrect
SelectedIsCorrect(portals, playerLane) ==
    /\ SelectedIdx(portals, playerLane) # {}
    /\ portals[Max(SelectedIdx(portals, playerLane))].isCorrect

\* selectedPortal?.answerText || 'None'
YourAnswer(portals, playerLane) ==
    IF SelectedIdx(portals, playerLane) = {} THEN "None"
    ELSE OrElse(portals[Max(SelectedIdx(portals, playerLane))].answerText, "None")

\* correctPortal?.answerText || ''
CorrectAnswer(portals) ==
    IF CorrectIdx(portals) = {} THEN ""
    ELSE portals[Max(CorrectIdx(portals))].answerText

\* handlePortalPassed, the score: addCorrect() or addWrong(...)
ScorePassed(portals, playerLane) ==
    IF SelectedIsCorrect(portals, playerLane) THEN AddCorrect
    ELSE AddWrong(questions[currentQuestionIndex + 1].question,
                  YourAnswer(portals, playerLane), CorrectAnswer(portals))

\* A collision test without the waitingForNextQuestion guard: the variant C3
\* is measured against.
CrossedNoFreeze(heap) ==
    /\ activePortalSet # NoPortals
    /\ heap[activePortalSet].z < (PlayerZ - 1) * Milli

\* checkPortalCollision: a portal of the active set is behind the player by
\* more than 1 (the positions are those after the move of this tick)
Crossed(heap) ==
    /\ ~waitingForNextQuestion
    /\ activePortalSet # NoPortals
    /\ heap[activePortalSet].z < (PlayerZ - 1) * Milli

\* update(deltaTime) while playing: track and portals move, then
\* checkPortalCollision, then checkSpawnPortals
UpdatePlaying(deltaTime, js) ==
    LET moveDistance == MoveDistance(speed, deltaTime)
        heap1 == MovePortals(portalHeap, activePortals, moveDistance)
        list1 == KeepPortals(portalHeap, activePortals)
    IN  IF Crossed(heap1)
        THEN \* handlePortalPassed(playerLane)
             /\ waitingForNextQuestion' = TRUE
             /\ portalHeap' = Collect(Reveal(heap1, activePortalSet), list1, activePortalSet)
             /\ activePortals' = list1
             /\ ScorePassed(heap1[activePortalSet].portals, currentLane)
             /\ settleTimers' = settleTimers + 1
             /\ UNCHANGED <<state, uiScreen, questions, currentQuestionIndex,
                            nextPortalSpawnZ, activePortalSet, currentTopic,
                            currentDifficulty, questionsPerGame, pendingFetches>>
        ELSE IF /\ activePortalSet = NoPortals
                /\ ~waitingForNextQuestion
                /\ currentQuestionIndex < Len(questions)
        THEN \* spawnNextPortals()
             LET pushed == PushPortalSet(Collect(heap1, list1, NoPortals), list1,
                                         questions[currentQuestionIndex + 1],
                                         nextPortalSpawnZ, js)
             IN  /\ portalHeap' = pushed.heap
                 /\ activePortals' = pushed.list
                 /\ activePortalSet' = pushed.id
                 /\ nextPortalSpawnZ' = nextPortalSpawnZ + PortalSpacing * Milli
                 /\ UNCHANGED <<state, uiScreen, questions, currentQuestionIndex,
                                waitingForNextQuestion, currentTopic, currentDifficulty,
                                questionsPerGame, settleTimers, pendingFetches, scoreVars>>
        ELSE /\ portalHeap' = Collect(heap1, list1, activePortalSet)
             /\ activePortals' = list1
             /\ UNCHANGED <<gameVars, scoreVars>>

\* update without the state guard: the variant C8 is measured against.
UpdateAlways(deltaTime, js) == UpdatePlaying(deltaTime, js)

\* update(deltaTime): if (this.state !== 'playing') return;
Update(deltaTime, js) ==
    IF state # "playing" THEN UNCHANGED <<gameVars, portalVars, scoreVars>>
    ELSE UpdatePlaying(deltaTime, js)

\* one callback of engine.runRenderLoop
Tick(deltaTime, js) ==
    /\ Update(deltaTime, js)
    /\ UNCHANGED <<playerVars, speed, storeVars, obsVars, shuffleVars, serviceVars>>

\* endGame(): the state, saveGame(), ui.showResults(gameScore); an exception
\* of saveGame leaves endGame before the results are shown
EndGame(readOk, writeOk) ==
    /\ state' = "results"
    /\ sessionResults' = sessionResults + 1
    /\ IF SaveGameThrows(readOk)
       THEN SaveGameThrown /\ UNCHANGED uiScreen
       ELSE SaveGame(readOk, writeOk) /\ uiScreen' = "results"

\* the callback of the setTimeout of handlePortalPassed
SettleTimer(readOk, writeOk) ==
    /\ settleTimers > 0
    /\ settleTimers' = settleTimers - 1
    /\ activePortalSet' = NoPortals
    /\ portalHeap' = Collect(portalHeap, activePortals, NoPortals)
    /\ currentQuestionIndex' = currentQuestionIndex + 1
    /\ waitingForNextQuestion' = FALSE
    /\ IF currentQuestionIndex + 1 >= Len(questions)
       THEN EndGame(readOk, writeOk)
       ELSE UNCHANGED <<state, uiScreen, storeVars, sessionResults, sessionSaves,
                        savedLog, lastSaved>>
    /\ UNCHANGED <<questions, nextPortalSpawnZ, currentTopic, currentDifficulty,
                   questionsPerGame, pendingFetches, playerVars, speed, activePortals,
                   scoreVars, startCalls, shuffleVars, serviceVars>>

\* startGame up to the await: the settings, the loading screen, the request
StartGame(topic, difficulty, questionCount) ==
    /\ startCalls < MaxStartCalls
    /\ startCalls' = startCalls + 1
    /\ currentTopic' = topic
    /\ currentDifficulty' = difficulty
    /\ questionsPerGame' = questionCount
    /\ uiScreen' = "loading"
    /\ pendingFetches' = Append(pendingFetches,
            [topic |-> topic, difficulty |-> difficulty, count |-> questionCount])
    /\ UNCHANGED <<state, questions, currentQuestionIndex, nextPortalSpawnZ,
                   activePortalSet, waitingForNextQuestion, settleTimers,
                   playerVars, speed, portalVars, scoreVars, storeVars,
                   sessionSaves, sessionResults, savedLog, lastSaved, shuffleVars, serviceVars>>

RemoveAt(seq, k) == SubSeq(seq, 1, k - 1) \o SubSeq(seq, k + 1, Len(seq))

\* startGame after the await: the k-th request outstanding resolves with batch.
\* resetGameState(), scoreManager.startGame, the game screen, the state and
\* spawnNextPortals(), which throws on an empty batch: the catch block then
\* shows the menu.
FetchDone(k, batch, js) ==
    /\ k \in DOMAIN pendingFetches
    /\ pendingFetches' = RemoveAt(pendingFetches, k)
    /\ questions' = batch
    \* resetGameState()
    /\ currentQuestionIndex' = 0
    /\ waitingForNextQuestion' = FALSE
    /\ currentLane' = 1
    /\ isMoving' = FALSE
    /\ SmStartGame(pendingFetches[k].topic, pendingFetches[k].difficulty, Len(batch))
    /\ sessionSaves' = 0
    /\ sessionResults' = 0
    \* ui.clearChatHistory(), the last call of resetGameState()
    /\ conversationHistory' = <<>>
    /\ state' = "playing"
    /\ IF batch = <<>>
       THEN /\ uiScreen' = "menu"
            /\ nextPortalSpawnZ' = FirstSpawnZ * Milli
            /\ activePortalSet' = NoPortals
            /\ activePortals' = <<>>
            /\ portalHeap' = <<>>
       ELSE LET pushed == PushPortalSet(<<>>, <<>>, batch[1], FirstSpawnZ * Milli, js)
            IN  /\ uiScreen' = "game"
                /\ nextPortalSpawnZ' = FirstSpawnZ * Milli + PortalSpacing * Milli
                /\ activePortalSet' = pushed.id
                /\ activePortals' = pushed.list
                /\ portalHeap' = pushed.heap
    /\ UNCHANGED <<currentTopic, currentDifficulty, questionsPerGame, settleTimers,
                   speed, storeVars, startCalls, savedLog, lastSaved, shuffleVars,
                   isStreaming, exchanges, chatCalls, fetchVars, proxyVars>>

\* togglePause()
TogglePause ==
    /\ IF state = "playing" THEN state' = "paused" /\ uiScreen' = "paused"
       ELSE IF state = "paused" THEN state' = "playing" /\ uiScreen' = "game"
       ELSE UNCHANGED <<state, uiScreen>>
    /\ UNCHANGED <<questions, currentQuestionIndex, nextPortalSpawnZ, activePortalSet,
                   waitingForNextQuestion, currentTopic, currentDifficulty,
                   questionsPerGame, settleTimers, pendingFetches, playerVars, speed,
                   portalVars, scoreVars, storeVars, obsVars, shuffleVars, serviceVars>>

\* restartGame(): startGame(currentTopic, currentDifficulty), questionCount
\* taking its default
RestartGame == StartGame(currentTopic, currentDifficulty, DefaultQuestionCount)

\* backToMenu()
BackToMenu ==
    /\ state' = "menu"
    /\ activePortals' = <<>>
    /\ portalHeap' = <<>>
    /\ activePortalSet' = NoPortals
    /\ uiScreen' = "menu"
    /\ UNCHANGED <<questions, currentQuestionIndex, nextPortalSpawnZ,
                   waitingForNextQuestion, currentTopic, currentDifficulty,
                   questionsPerGame, settleTimers, pendingFetches, playerVars, speed,
                   scoreVars, storeVars, obsVars, shuffleVars, serviceVars>>

----------------------------------------------------------------------------
(* UIManager.ts: what the user can reach on the screen that is shown *)

\* the start button of the menu screen
ClickStart(request) ==
    /\ uiScreen = "menu"
    /\ StartGame(request.topic, request.difficulty, request.count)

\* Escape on the game screen or on the pause screen: onResumeGame
PressEscape ==
    /\ uiScreen \in {"game", "paused"}
    /\ TogglePause

\* the pause button of the HUD: showScreen('paused') and nothing else
ClickHudPause ==
    /\ uiScreen = "game"
    /\ uiScreen' = "paused"
    /\ UNCHANGED <<state, questions, currentQuestionIndex, nextPortalSpawnZ,
                   activePortalSet, waitingForNextQuestion, currentTopic,
                   currentDifficulty, questionsPerGame, settleTimers, pendingFetches,
                   playerVars, speed, portalVars, scoreVars, storeVars, obsVars,
                   shuffleVars, serviceVars>>

\* the buttons of the pause screen and of the results screen
ClickResume == uiScreen = "paused" /\ TogglePause

ClickRestart == uiScreen \in {"paused", "results"} /\ RestartGame

ClickMenu == uiScreen \in {"paused", "results"} /\ BackToMenu

\* the speed keys and the speed buttons: only while playing.  The model lets
\* the speed rise MaxSpeedSteps steps above the default and come back.
SpeedUp ==
    /\ state = "playing"
    /\ speed + SpeedStep <= DefaultSpeed + MaxSpeedSteps * SpeedStep
    /\ speed' = SetSpeed(speed + SpeedStep)
    /\ UNCHANGED <<gameVars, playerVars, portalVars, scoreVars, storeVars, obsVars,
                   shuffleVars, serviceVars>>

SpeedDown ==
    /\ state = "playing"
    /\ speed - SpeedStep >= DefaultSpeed
    /\ speed' = SetSpeed(speed - SpeedStep)
    /\ UNCHANGED <<gameVars, playerVars, portalVars, scoreVars, storeVars, obsVars,
                   shuffleVars, serviceVars>>

----------------------------------------------------------------------------
(* The game *)

\* sendMessage has not been called: no request sent, no callback made
NoChatCalls ==
    [sendMessage |-> 0, requests |-> 0, onChunk |-> 0, onComplete |-> 0, onError |-> 0]

NoRecord == [kind |-> "none"]

\* everything but what localStorage holds
GameInit ==
    /\ state = "menu"
    /\ uiScreen = "menu"
    /\ questions = <<>>
    /\ currentQuestionIndex = 0
    /\ nextPortalSpawnZ = FirstSpawnZ * Milli
    /\ activePortalSet = NoPortals
    /\ waitingForNextQuestion = FALSE
    /\ currentTopic = ""
    /\ currentDifficulty = "medium"
    /\ questionsPerGame = DefaultQuestionCount
    /\ settleTimers = 0
    /\ pendingFetches = <<>>
    /\ currentLane = 1
    /\ isMoving = FALSE
    /\ speed = DefaultSpeed
    /\ activePortals = <<>>
    /\ portalHeap = <<>>
    /\ currentScore = 0
    /\ totalQuestions = 0
    /\ answeredQuestions = 0
    /\ wrongAnswers = <<>>
    /\ smTopic = ""
    /\ smDifficulty = "medium"
    /\ now = 1
    /\ startCalls = 0
    /\ sessionSaves = 0
    /\ sessionResults = 0
    /\ savedLog = <<>>
    /\ lastSaved = NoRecord
    /\ shuffleIn = NoRecord
    /\ shuffleOut = NoRecord
    /\ conversationHistory = <<>>
    /\ isStreaming = FALSE
    /\ exchanges = <<>>
    /\ chatCalls = NoChatCalls
    /\ useOfflineMode = FALSE
    /\ fetchIn = NoRecord
    /\ fetchOut = NoRecord
    /\ proxyIn = NoRecord
    /\ proxyOut = NoRecord

\* a first visit: nothing is stored
Init == GameInit /\ storage = NoData

\* The game of Spec is played with a localStorage that works; StorageSpec
\* plays it with one that fails.
Next ==
    \/ \E request \in StartRequests : ClickStart(request)
    \/ \E k \in 1 .. MaxStartCalls, batch \in Batches, js \in GameSwaps :
          FetchDone(k, batch, js)
    \/ \E deltaTime \in DeltaTimes, js \in GameSwaps : Tick(deltaTime, js)
    \/ SettleTimer(TRUE, TRUE)
    \/ PressEscape
    \/ ClickHudPause
    \/ ClickResume
    \/ ClickRestart
    \/ ClickMenu
    \/ MoveLeft
    \/ MoveRight
    \/ AnimationEnd
    \/ SpeedUp
    \/ SpeedDown

Spec == Init /\ [][Next]_vars

----------------------------------------------------------------------------
(* One game session over a localStorage that may hold anything under       *)
(* STORAGE_KEY and may fail at every saveGame                              *)

\* what another version of the page, another script or the user may have left
StoredBlobs == {NoData, Unparseable, NotAnArray}

StorageInit == GameInit /\ storage \in StoredBlobs

FirstClickStart(request) == startCalls = 0 /\ ClickStart(request)

StorageNext ==
    \/ \E request \in StartRequests : FirstClickStart(request)
    \/ \E k \in 1 .. MaxStartCalls, batch \in Batches, js \in GameSwaps :
          FetchDone(k, batch, js)
    \/ \E deltaTime \in DeltaTimes, js \in GameSwaps : Tick(deltaTime, js)
    \/ \E outcome \in StorageOutcomes : SettleTimer(outcome[1], outcome[2])
    \/ PressEscape
    \/ ClickHudPause
    \/ ClickResume
    \/ ClickMenu
    \/ MoveLeft
    \/ MoveRight
    \/ AnimationEnd
    \/ SpeedUp
    \/ SpeedDown

StorageSpec == StorageInit /\ [][StorageNext]_vars

----------------------------------------------------------------------------
(* spawnPortalSet and shuffleAnswers on their own: every 3-answer input,   *)
(* every correctIndex and every sequence of swap indices                   *)

CallSpawnPortalSet(answers, correctIndex, js) ==
    /\ shuffleIn' = [answers |-> answers, correctIndex |-> correctIndex, js |-> js]
    /\ shuffleOut' =
          [shuffled |-> ShuffleAnswers(answers, correctIndex, js),
           set |-> SpawnPortalSet([question |-> "q", answers |-> answers,
                                   correctIndex |-> correctIndex],
                                  FirstSpawnZ * Milli, js)]
    /\ UNCHANGED <<gameVars, playerVars, speed, portalVars, scoreVars, storeVars, obsVars,
                   serviceVars>>

ShuffleNext ==
    \E answers \in [1 .. 3 -> Texts], correctIndex \in 0 .. 2, js \in SwapChoices(3) :
        CallSpawnPortalSet(answers, correctIndex, js)

ShuffleSpec == Init /\ [][ShuffleNext]_vars

----------------------------------------------------------------------------
(* The ScoreManager on its own: every sequence of startGame, addCorrect    *)
(* and addWrong of at most MaxAnswers answers                              *)

CallStartGame(request) ==
    /\ SmStartGame(request.topic, request.difficulty, request.count)
    /\ UNCHANGED <<gameVars, playerVars, speed, portalVars, storeVars, obsVars, shuffleVars, serviceVars>>

CallAddCorrect ==
    /\ answeredQuestions < MaxAnswers
    /\ AddCorrect
    /\ UNCHANGED <<gameVars, playerVars, speed, portalVars, storeVars, obsVars, shuffleVars, serviceVars>>

CallAddWrong ==
    /\ answeredQuestions < MaxAnswers
    /\ AddWrong(Bank[1].question, Bank[1].answers[2], Bank[1].answers[1])
    /\ UNCHANGED <<gameVars, playerVars, speed, portalVars, storeVars, obsVars, shuffleVars, serviceVars>>

ScoreNext ==
    \/ \E request \in StartRequests : CallStartGame(request)
    \/ CallAddCorrect
    \/ CallAddWrong

ScoreSpec == Init /\ [][ScoreNext]_vars

----------------------------------------------------------------------------
(* The history in storage: up to MaxSaves calls of saveGame, the score     *)
(* moving in between                                                       *)

HistoryAddCorrect ==
    /\ answeredQuestions < MaxHistoryAnswers
    /\ AddCorrect
    /\ UNCHANGED <<gameVars, playerVars, speed, portalVars, storeVars, obsVars, shuffleVars, serviceVars>>

HistoryAddWrong ==
    /\ answeredQuestions < MaxHistoryAnswers
    /\ AddWrong(Bank[1].question, Bank[1].answers[2], Bank[1].answers[1])
    /\ UNCHANGED <<gameVars, playerVars, speed, portalVars, storeVars, obsVars, shuffleVars, serviceVars>>

HistorySaveGame ==
    /\ Len(savedLog) < MaxSaves
    /\ SaveGame(TRUE, TRUE)
    /\ UNCHANGED <<gameVars, playerVars, speed, portalVars, scoreVars, startCalls,
                   sessionResults, shuffleVars, serviceVars>>

HistoryNext ==
    \/ HistoryAddCorrect
    \/ HistoryAddWrong
    \/ HistorySaveGame

HistorySpec == Init /\ [][HistoryNext]_vars

----------------------------------------------------------------------------
(* One session of the ScoreManager from startGame to saveGame: batches of  *)
(* 3 and of 10 questions, answered in any order and saved at any moment    *)

\* questions.length of the sessions played
SessionCounts == {3, 10}

RecordStartGame(questionCount) ==
    /\ totalQuestions = 0
    /\ SmStartGame(StartTopic, StartDifficulty, questionCount)
    /\ UNCHANGED <<gameVars, playerVars, speed, portalVars, storeVars, obsVars, shuffleVars, serviceVars>>

RecordAddCorrect ==
    /\ answeredQuestions < totalQuestions
    /\ AddCorrect
    /\ UNCHANGED <<gameVars, playerVars, speed, portalVars, storeVars, obsVars, shuffleVars, serviceVars>>

RecordAddWrong ==
    /\ answeredQuestions < totalQuestions
    /\ AddWrong(Bank[1].question, Bank[1].answers[2], Bank[1].answers[1])
    /\ UNCHANGED <<gameVars, playerVars, speed, portalVars, storeVars, obsVars, shuffleVars, serviceVars>>

RecordSaveGame(readOk, writeOk) ==
    /\ Len(savedLog) < MaxRecordSaves
    /\ SaveGame(readOk, writeOk)
    /\ UNCHANGED <<gameVars, playerVars, speed, portalVars, scoreVars, startCalls,
                   sessionResults, shuffleVars, serviceVars>>

RecordNext ==
    \/ \E questionCount \in SessionCounts : RecordStartGame(questionCount)
    \/ RecordAddCorrect
    \/ RecordAddWrong
    \/ \E outcome \in StorageOutcomes : RecordSaveGame(outcome[1], outcome[2])

RecordSpec == Init /\ [][RecordNext]_vars

----------------------------------------------------------------------------
(* QuestionService.ts *)

\* A topic is the sequence of its characters.  The bundled pools hold ten
\* questions each; the model keeps the first PoolSize of every pool.
PoolSize == 3

UpperCase == <<"A", "B", "C", "D", "E", "F", "G", "H", "I", "J", "K", "L", "M",
               "N", "O", "P", "Q", "R", "S", "T", "U", "V", "W", "X", "Y", "Z">>
LowerCase == <<"a", "b", "c", "d", "e", "f", "g", "h", "i", "j", "k", "l", "m",
               "n", "o", "p", "q", "r", "s", "t", "u", "v", "w", "x", "y", "z">>
WhiteSpace == {" ", "\t", "\n"}

\* String.prototype.toLowerCase
ToLowerCase(text) ==
    [i \in DOMAIN text |->
        IF \E n \in DOMAIN UpperCase : UpperCase[n] = text[i]
        THEN LowerCase[CHOOSE n \in DOMAIN UpperCase : UpperCase[n] = text[i]]
        ELSE text[i]]

\* text.replace(/\s+/g, '')
RECURSIVE RemoveWhiteSpace(_)
RemoveWhiteSpace(text) ==
    IF text = <<>> THEN <<>>
    ELSE IF Head(text) \in WhiteSpace THEN RemoveWhiteSpace(Tail(text))
    ELSE <<Head(text)>> \o RemoveWhiteSpace(Tail(text))

\* topicKey of getOfflineQuestions
TopicKey(topic) == RemoveWhiteSpace(ToLowerCase(topic))

\* the keys of the FALLBACK_QUESTIONS literal, in the order of Object.keys
OwnKeys == << <<"m", "a", "t", "h", "e", "m", "a", "t", "i", "c", "s">>,
              <<"s", "c", "i", "e", "n", "c", "e">>,
              <<"g", "e", "o", "g", "r", "a", "p", "h", "y">>,
              <<"p", "r", "o", "g", "r", "a", "m", "m", "i", "n", "g">> >>

\* correctIndex of the questions of each pool, in the order of OwnKeys
PoolCorrectIndex == << <<1, 1, 1, 2, 0, 1, 1, 0, 0, 2>>,
                       <<1, 2, 0, 1, 2, 1, 2, 1, 0, 0>>,
                       <<1, 1, 2, 1, 2, 1, 0, 2, 0, 1>>,
                       <<0, 1, 1, 1, 1, 0, 1, 1, 1, 0>> >>

\* the pool stored under the k-th key
Pool(k) ==
    [n \in 1 .. PoolSize |->
        [question |-> <<OwnKeys[k], n>>, answers |-> <<"a", "b", "c">>,
         correctIndex |-> PoolCorrectIndex[k][n]]]

\* FALLBACK_QUESTIONS is an object literal, so a lookup also finds what
\* Object.prototype defines: of those names only the ones without an upper-case
\* letter can be the result of toLowerCase.  Their values are a function and an
\* object: truthy and not iterable.
InheritedKeys == { <<"c", "o", "n", "s", "t", "r", "u", "c", "t", "o", "r">>,
                   <<"_", "_", "p", "r", "o", "t", "o", "_", "_">> }

\* FALLBACK_QUESTIONS[key]
FALLBACK_QUESTIONS(key) ==
    IF \E k \in DOMAIN OwnKeys : OwnKeys[k] = key
    THEN [kind |-> "array",
          items |-> Pool(CHOOSE k \in DOMAIN OwnKeys : OwnKeys[k] = key)]
    ELSE IF key \in InheritedKeys THEN [kind |-> "object", items |-> <<>>]
    ELSE [kind |-> "undefined", items |-> <<>>]

\* the orders in which a sort with a random comparator can leave n elements
Orders(n) == {order \in [1 .. n -> 1 .. n] : \A i, j \in 1 .. n : i # j => order[i] # order[j]}

\* array.slice(0, end)
Slice(array, end) ==
    SubSeq(array, 1, IF end < 0
                     THEN (IF Len(array) + end < 0 THEN 0 ELSE Len(array) + end)
                     ELSE (IF end < Len(array) THEN end ELSE Len(array)))

\* the questions the fallback looks at: the pool of the requested topic or,
\* if the lookup gives a falsy value, the pool of a topic drawn at random
OfflinePool(request, randomTopic) ==
    IF FALLBACK_QUESTIONS(TopicKey(request.topic)).kind = "undefined"
    THEN FALLBACK_QUESTIONS(OwnKeys[randomTopic])
    ELSE FALLBACK_QUESTIONS(TopicKey(request.topic))

\* getOfflineQuestions(request): spreading a value that is not iterable throws
GetOfflineQuestions(request, randomTopic, order) ==
    LET found == OfflinePool(request, randomTopic)
    IN  IF found.kind # "array"
        THEN [outcome |-> "rejected", questions |-> <<>>]
        ELSE [outcome |-> "resolved",
              questions |-> Slice([i \in DOMAIN found.items |-> found.items[order[i]]],
                                  request.count)]

\* what the request to the worker can come to
NetworkThrows == [kind |-> "throws"]
NotOk == [kind |-> "status"]
NotJson == [kind |-> "text"]
JsonNull == [kind |-> "null"]
NoQuestions == [kind |-> "object", questions |-> [kind |-> "undefined", items |-> <<>>]]
QuestionsString == [kind |-> "object", questions |-> [kind |-> "string", items |-> <<>>]]
QuestionsArray(items) == [kind |-> "object", questions |-> [kind |-> "array", items |-> items]]

\* the branch of fetchQuestions that returns data.questions
Accepts(response) == response.kind = "object" /\ response.questions.kind = "array"

\* fetchQuestions(request)
FetchQuestions(request, offline, response, randomTopic, order) ==
    IF ~offline /\ Accepts(response)
    THEN [outcome |-> "resolved", questions |-> response.questions.items,
          source |-> "network", networkCalls |-> 1]
    ELSE [outcome |-> GetOfflineQuestions(request, randomTopic, order).outcome,
          questions |-> GetOfflineQuestions(request, randomTopic, order).questions,
          source |-> "offline", networkCalls |-> IF offline THEN 0 ELSE 1]

----------------------------------------------------------------------------
(* FetchSpec: calls of fetchQuestions, online and in forced offline mode *)

\* "Science" is a button of the menu, the others are typed as a custom topic
RequestTopics == { <<"S", "c", "i", "e", "n", "c", "e">>,
                   <<"G", "e", "o", " ", "g", "r", "a", "p", "h", "y">>,
                   <<"A", "r", "t">>,
                   <<"c", "o", "n", "s", "t", "r", "u", "c", "t", "o", "r">>,
                   <<"_", "_", "p", "r", "o", "t", "o", "_", "_">> }

\* the slider asks for fewer questions than a pool holds, as many, or more
RequestCounts == PoolSize - 1 .. PoolSize + 1

FetchRequests ==
    [topic : RequestTopics, difficulty : {StartDifficulty}, count : RequestCounts]

\* items of a batch the worker answers with: one as the interface Question
\* describes it, one with two answers, one with a correctIndex of 3
WellFormed == [question |-> "n", answers |-> <<"a", "b", "c">>, correctIndex |-> 0]
TwoAnswers == [question |-> "n", answers |-> <<"a", "b">>, correctIndex |-> 0]
IndexOutOfRange == [question |-> "n", answers |-> <<"a", "b", "c">>, correctIndex |-> 3]

NetworkBatches ==
    UNION {[1 .. n -> {WellFormed, TwoAnswers, IndexOutOfRange}] : n \in 0 .. MaxQuestions}

Responses ==
    {NetworkThrows, NotOk, NotJson, JsonNull, NoQuestions, QuestionsString}
        \cup {QuestionsArray(items) : items \in NetworkBatches}

NoResponse == [kind |-> "none"]

\* setOfflineMode(offline)
SetOfflineMode(offline) ==
    /\ useOfflineMode' = offline
    /\ UNCHANGED <<gameVars, playerVars, speed, portalVars, scoreVars, storeVars, obsVars,
                   shuffleVars, chatVars, fetchIn, fetchOut, proxyVars>>

\* one call of fetchQuestions; the response and the random draws are those
\* the call comes to use.  A call leaves nothing behind in the service, so a
\* behaviour makes one call, in the mode set before it.
CallFetchQuestions(request) ==
    /\ fetchIn = NoRecord
    /\ \E response \in IF useOfflineMode THEN {NoResponse} ELSE Responses :
       \E randomTopic \in IF (useOfflineMode \/ ~Accepts(response))
                              /\ FALLBACK_QUESTIONS(TopicKey(request.topic)).kind = "undefined"
                           THEN DOMAIN OwnKeys ELSE {1} :
       \E order \in IF (useOfflineMode \/ ~Accepts(response))
                        /\ OfflinePool(request, randomTopic).kind = "array"
                     THEN Orders(PoolSize) ELSE {[i \in 1 .. PoolSize |-> i]} :
           /\ fetchIn' = [request |-> request, offline |-> useOfflineMode,
                          response |-> response]
           /\ fetchOut' = FetchQuestions(request, useOfflineMode, response,
                                         randomTopic, order)
    /\ UNCHANGED <<gameVars, playerVars, speed, portalVars, scoreVars, storeVars,
                   obsVars, shuffleVars, chatVars, useOfflineMode, proxyVars>>

FetchNext ==
    \/ \E offline \in BOOLEAN : SetOfflineMode(offline)
    \/ \E request \in FetchRequests : CallFetchQuestions(request)

FetchSpec == Init /\ [][FetchNext]_vars

----------------------------------------------------------------------------
(* ChatService.ts *)

\* A message of the history is its role and its content (the timestamp is
\* left out).  An element of exchanges is a sendMessage call that is past its
\* busy test and waits for the network: for the response (phase "fetch") or
\* for the next chunk of the stream (phase "read").  The response text is the
\* sequence of the contents received.

MaxSends == 3
MaxReads == 2

ChatMessages == {"m"}

\* the lines of a chunk: a data line with content, one with empty content,
\* the [DONE] line, and anything else (no "data: " prefix, incomplete JSON)
ContentLine == [kind |-> "content", content |-> "x"]
EmptyContentLine == [kind |-> "content", content |-> ""]
DoneLine == [kind |-> "done", content |-> ""]
OtherLine == [kind |-> "other", content |-> ""]
ChatLines == {ContentLine, EmptyContentLine, DoneLine, OtherLine}
ChatChunks == UNION {[1 .. n -> ChatLines] : n \in 1 .. 2}

\* array.pop()
Pop(array) == IF array = <<>> THEN <<>> ELSE SubSeq(array, 1, Len(array) - 1)

\* the test sendMessage starts with
NeverBusy == FALSE
Busy == isStreaming

\* sendMessage(message, ...) up to the await of fetch
SendMessage(message) ==
    /\ chatCalls.sendMessage < MaxSends
    /\ IF Busy
       THEN /\ chatCalls' = [chatCalls EXCEPT !.sendMessage = @ + 1, !.onError = @ + 1]
            /\ UNCHANGED <<conversationHistory, isStreaming, exchanges>>
       ELSE /\ isStreaming' = TRUE
            /\ conversationHistory' =
                  Append(conversationHistory, [role |-> "user", content |-> message])
            /\ exchanges' = Append(exchanges,
                  [phase |-> "fetch", fullResponse |-> <<>>, reads |-> 0,
                   body |-> [message |-> message,
                             conversationHistory |-> conversationHistory]])
            /\ chatCalls' = [chatCalls EXCEPT !.sendMessage = @ + 1, !.requests = @ + 1]
    /\ UNCHANGED <<gameVars, playerVars, speed, portalVars, scoreVars, storeVars, obsVars,
                   shuffleVars, fetchVars, proxyVars>>

\* the catch and the finally of sendMessage
ExchangeFails(k) ==
    /\ conversationHistory' = Pop(conversationHistory)
    /\ chatCalls' = [chatCalls EXCEPT !.onError = @ + 1]
    /\ isStreaming' = FALSE
    /\ exchanges' = RemoveAt(exchanges, k)

\* the assistant message is recorded and the call ends
ExchangeCompletes(k, fullResponse, chunks) ==
    /\ conversationHistory' =
          Append(conversationHistory, [role |-> "assistant", content |-> fullResponse])
    /\ chatCalls' = [chatCalls EXCEPT !.onChunk = @ + chunks, !.onComplete = @ + 1]
    /\ isStreaming' = FALSE
    /\ exchanges' = RemoveAt(exchanges, k)

\* fetch rejects, the status is not ok, or the response has no body
FetchFails(k) ==
    /\ k \in DOMAIN exchanges
    /\ exchanges[k].phase = "fetch"
    /\ ExchangeFails(k)
    /\ UNCHANGED <<gameVars, playerVars, speed, portalVars, scoreVars, storeVars, obsVars,
                   shuffleVars, fetchVars, proxyVars>>

\* the response arrives with a body to read
FetchOk(k) ==
    /\ k \in DOMAIN exchanges
    /\ exchanges[k].phase = "fetch"
    /\ exchanges' = [exchanges EXCEPT ![k].phase = "read"]
    /\ UNCHANGED <<conversationHistory, isStreaming, chatCalls>>
    /\ UNCHANGED <<gameVars, playerVars, speed, portalVars, scoreVars, storeVars, obsVars,
                   shuffleVars, fetchVars, proxyVars>>

\* the for loop over the lines of one chunk
RECURSIVE ReadLines(_, _, _)
ReadLines(lines, fullResponse, chunks) ==
    IF lines = <<>>
    THEN [done |-> FALSE, fullResponse |-> fullResponse, chunks |-> chunks]
    ELSE IF Head(lines).kind = "done"
    THEN [done |-> TRUE, fullResponse |-> fullResponse, chunks |-> chunks]
    ELSE IF Head(lines).kind = "content" /\ Head(lines).content # ""
    THEN ReadLines(Tail(lines), Append(fullResponse, Head(lines).content), chunks + 1)
    ELSE ReadLines(Tail(lines), fullResponse, chunks)

\* reader.read() gives a chunk
ReadChunk(k, lines) ==
    /\ k \in DOMAIN exchanges
    /\ exchanges[k].phase = "read"
    /\ exchanges[k].reads < MaxReads
    /\ LET read == ReadLines(lines, exchanges[k].fullResponse, 0)
       IN  IF read.done
           THEN ExchangeCompletes(k, read.fullResponse, read.chunks)
           ELSE /\ exchanges' = [exchanges EXCEPT ![k].fullResponse = read.fullResponse,
                                                  ![k].reads = @ + 1]
                /\ chatCalls' = [chatCalls EXCEPT !.onChunk = @ + read.chunks]
                /\ UNCHANGED <<conversationHistory, isStreaming>>
    /\ UNCHANGED <<gameVars, playerVars, speed, portalVars, scoreVars, storeVars, obsVars,
                   shuffleVars, fetchVars, proxyVars>>

\* reader.read() reports the end of the stream before any [DONE] line
ReadDone(k) ==
    /\ k \in DOMAIN exchanges
    /\ exchanges[k].phase = "read"
    /\ IF exchanges[k].fullResponse # <<>>
       THEN ExchangeCompletes(k, exchanges[k].fullResponse, 0)
       ELSE /\ isStreaming' = FALSE
            /\ exchanges' = RemoveAt(exchanges, k)
            /\ UNCHANGED <<conversationHistory, chatCalls>>
    /\ UNCHANGED <<gameVars, playerVars, speed, portalVars, scoreVars, storeVars, obsVars,
                   shuffleVars, fetchVars, proxyVars>>

\* reader.read() rejects
ReadThrows(k) ==
    /\ k \in DOMAIN exchanges
    /\ exchanges[k].phase = "read"
    /\ ExchangeFails(k)
    /\ UNCHANGED <<gameVars, playerVars, speed, portalVars, scoreVars, storeVars, obsVars,
                   shuffleVars, fetchVars, proxyVars>>

\* clearHistory(), called when a new game starts
ClearHistory ==
    /\ conversationHistory' = <<>>
    /\ UNCHANGED <<isStreaming, exchanges, chatCalls>>
    /\ UNCHANGED <<gameVars, playerVars, speed, portalVars, scoreVars, storeVars, obsVars,
                   shuffleVars, fetchVars, proxyVars>>

ChatNext ==
    \/ \E message \in ChatMessages : SendMessage(message)
    \/ \E k \in 1 .. MaxSends : FetchFails(k)
    \/ \E k \in 1 .. MaxSends : FetchOk(k)
    \/ \E k \in 1 .. MaxSends, lines \in ChatChunks : ReadChunk(k, lines)
    \/ \E k \in 1 .. MaxSends : ReadDone(k)
    \/ \E k \in 1 .. MaxSends : ReadThrows(k)
    \/ ClearHistory

ChatSpec == Init /\ [][ChatNext]_vars

----------------------------------------------------------------------------
(* The proxy worker *)

\* the body of a request: text that is no JSON, the JSON null, or a JSON
\* object whose topic and message are a text or are missing ("")
MalformedBody == [kind |-> "text", topic |-> "", message |-> ""]
NullBody == [kind |-> "null", topic |-> "", message |-> ""]
JsonBodies == [kind : {"object"}, topic : {"", "t"}, message : {"", "m"}]

ProxyRequests ==
    [method : {"OPTIONS", "POST", "GET"}, pathname : {"/", "/chat"},
     body : {MalformedBody, NullBody} \cup JsonBodies]

\* env.OPENAI_API_KEY is set or not; the call to the language model throws,
\* gives nothing, or gives its output
ProxyEnvs == [apiKey : BOOLEAN, model : {"throws", "nothing", "output"}]

ErrorResponse(status, modelCalls) ==
    [status |-> status, body |-> "error", modelCalls |-> modelCalls]

\* handleQuestions(request, env)
HandleQuestions(request, env) ==
    IF request.body.kind # "object" THEN ErrorResponse(500, 0)
    ELSE IF request.body.topic = "" THEN ErrorResponse(400, 0)
    ELSE IF ~env.apiKey THEN ErrorResponse(500, 0)
    ELSE IF env.model = "output"
    THEN [status |-> 200, body |-> "questions", modelCalls |-> 1]
    ELSE ErrorResponse(500, 1)

\* handleChat(request, env)
HandleChat(request, env) ==
    IF request.body.kind # "object" THEN ErrorResponse(500, 0)
    ELSE IF request.body.message = "" THEN ErrorResponse(400, 0)
    ELSE IF ~env.apiKey THEN ErrorResponse(500, 0)
    ELSE IF env.model = "throws" THEN ErrorResponse(500, 1)
    ELSE [status |-> 200, body |-> "stream", modelCalls |-> 1]

\* fetch(request, env, ctx)
ProxyFetch(request, env) ==
    IF request.method = "OPTIONS" THEN [status |-> 200, body |-> "none", modelCalls |-> 0]
    ELSE IF request.method # "POST" THEN [status |-> 405, body |-> "text", modelCalls |-> 0]
    ELSE IF request.pathname = "/chat" THEN HandleChat(request, env)
    ELSE HandleQuestions(request, env)

----------------------------------------------------------------------------
(* ProxySpec: requests to the worker, one after the other *)

CallProxyFetch(request, env) ==
    /\ proxyIn' = [request |-> request, env |-> env]
    /\ proxyOut' = ProxyFetch(request, env)
    /\ UNCHANGED <<gameVars, playerVars, speed, portalVars, scoreVars, storeVars, obsVars,
                   shuffleVars, chatVars, fetchVars>>

ProxyNext == \E request \in ProxyRequests, env \in ProxyEnvs : CallProxyFetch(request, env)

ProxySpec == Init /\ [][ProxyNext]_vars

----------------------------------------------------------------------------
(* One game session on a batch as the worker's schema admits it: three     *)
(* answers that are any strings, the empty string included                 *)

WorkerBank ==
    << [question |-> "q5", answers |-> <<"", "b", "c">>, correctIndex |-> 1],
       [question |-> "q6", answers |-> <<"a", "", "b">>, correctIndex |-> 0] >>

WorkerBatches == {SubSeq(WorkerBank, 1, n) : n \in 1 .. MaxQuestions}

AnswerNext ==
    \/ \E request \in StartRequests : FirstClickStart(request)
    \/ \E k \in 1 .. MaxStartCalls, batch \in WorkerBatches, js \in GameSwaps :
          FetchDone(k, batch, js)
    \/ \E deltaTime \in DeltaTimes, js \in GameSwaps : Tick(deltaTime, js)
    \/ SettleTimer(TRUE, TRUE)
    \/ PressEscape
    \/ ClickHudPause
    \/ ClickResume
    \/ ClickMenu
    \/ MoveLeft
    \/ MoveRight
    \/ AnimationEnd
    \/ SpeedUp
    \/ SpeedDown

AnswerSpec == Init /\ [][AnswerNext]_vars

----------------------------------------------------------------------------
(* Properties *)

Count(seq, x) == Cardinality({k \in DOMAIN seq : seq[k] = x})

\* a render tick, whatever its deltaTime and the draws of a spawn
IsTick == \E deltaTime \in DeltaTimes, js \in GameSwaps : Tick(deltaTime, js)

scoreFields == <<currentScore, answeredQuestions, wrongAnswers>>

\* C1: for every question with correctIndex in {0,1,2} and every outcome of
\* the swaps, spawnPortalSet returns exactly 3 portals, one in each of the
\* lanes 0, 1 and 2, and exactly one of them has isCorrect = TRUE.
C1_OneCorrectPortal ==
    "set" \in DOMAIN shuffleOut =>
        LET portals == shuffleOut.set.portals
        IN  /\ Len(portals) = 3
            /\ \A lane \in 0 .. 2 :
                  Cardinality({k \in 1 .. 3 : portals[k].laneIndex = lane}) = 1
            /\ Cardinality({k \in 1 .. 3 : portals[k].isCorrect}) = 1

\* C1 witness: a question whose correct text also appears as a wrong answer
\* was spawned, and the swaps moved the correct answer from lane 2 to lane 0.
C1_Witness ==
    /\ "set" \in DOMAIN shuffleOut
    /\ shuffleIn.correctIndex = 2
    /\ shuffleIn.answers[1] = shuffleIn.answers[3]
    /\ shuffleOut.set.portals[1].isCorrect

\* C2: shuffleAnswers returns a permutation of the input answers whose entry
\* at the returned correctLane is the original answers[correctIndex]; the
\* portal marked correct and the displayAnswers entry of its lane carry that
\* text.
C2_ShuffleKeepsCorrect ==
    "shuffled" \in DOMAIN shuffleOut =>
        LET shuffled == shuffleOut.shuffled
            original == shuffleIn.answers[shuffleIn.correctIndex + 1]
            spawned == shuffleOut.set
        IN  /\ Len(shuffled.answers) = Len(shuffleIn.answers)
            /\ \A text \in Texts :
                  Count(shuffled.answers, text) = Count(shuffleIn.answers, text)
            /\ shuffled.correctLane \in 0 .. 2
            /\ shuffled.answers[shuffled.correctLane + 1] = original
            /\ \A k \in 1 .. 3 :
                  spawned.portals[k].isCorrect =>
                      /\ spawned.portals[k].answerText = original
                      /\ spawned.displayAnswers[spawned.portals[k].laneIndex + 1] = original

\* C2 witness: three different answers were really reordered and the correct
\* one changed lane twice (first to lane 1, then to lane 0).
C2_Witness ==
    /\ "shuffled" \in DOMAIN shuffleOut
    /\ Cardinality(Range(shuffleIn.answers)) = 3
    /\ shuffleIn.correctIndex = 2
    /\ shuffleIn.js = <<0, 1>>
    /\ shuffleOut.shuffled.correctLane = 0

\* C3: while waitingForNextQuestion is TRUE no tick changes score,
\* answeredQuestions or wrongAnswers; a tick that does change them scores the
\* active portal set, which was not revealed before and is revealed after,
\* and counts one answer: a portal set is scored at most once.
C3_ScoredOnce ==
    [][ IsTick =>
          IF waitingForNextQuestion THEN UNCHANGED scoreFields
          ELSE (scoreFields' # scoreFields) =>
                  /\ activePortalSet # NoPortals
                  /\ ~portalHeap[activePortalSet].revealed
                  /\ activePortalSet' = activePortalSet
                  /\ portalHeap'[activePortalSet].revealed
                  /\ waitingForNextQuestion'
                  /\ answeredQuestions' = answeredQuestions + 1 ]_vars

\* C3 witness: a set was scored and, still waiting for its settle timer, a
\* further tick has carried the resolved portals far behind the player.
C3_Witness ==
    /\ state = "playing"
    /\ waitingForNextQuestion
    /\ activePortalSet # NoPortals
    /\ portalHeap[activePortalSet].revealed
    /\ portalHeap[activePortalSet].z < (DespawnDistance - PortalSpacing) * Milli
    /\ answeredQuestions = 1

\* C4: for every started session the game enters 'results' exactly once and
\* saveGame is called exactly once, under any interleaving of ticks, settle
\* timers, pause, restart and back-to-menu.  Stated as: no session is saved
\* or shown its results more than once.
C4_SavedOncePerSession == sessionSaves <= 1 /\ sessionResults <= 1

\* C5: after startGame and after every sequence of addCorrect and addWrong,
\* answeredQuestions = currentScore + wrongAnswers.length and
\* 0 <= currentScore <= answeredQuestions.
C5_AnsweredIsScorePlusWrong ==
    /\ answeredQuestions = currentScore + Len(wrongAnswers)
    /\ 0 <= currentScore
    /\ currentScore <= answeredQuestions

\* C5 witness: a started game with one correct and two wrong answers.
C5_Witness ==
    /\ totalQuestions > 0
    /\ currentScore = 1
    /\ Len(wrongAnswers) = 2
    /\ answeredQuestions = 3

\* round(100 * score / answered) on the rationals, halves going up
RoundedRatio(score, answered) == (200 * score + answered) \div (2 * answered)

\* C6: getPercentage returns 0 when answeredQuestions = 0 and otherwise
\* round(100 * currentScore / answeredQuestions), an integer in 0..100.
C6_RoundedPercentage ==
    /\ GetPercentage \in 0 .. 100
    /\ GetPercentage = IF answeredQuestions = 0 THEN 0
                       ELSE RoundedRatio(currentScore, answeredQuestions)

\* the stored history, as loadAllScores reads it
History == LoadAllScores(storage, TRUE).items

Min(a, b) == IF a < b THEN a ELSE b

\* C7: after any sequence of saveGame calls with working storage the history
\* holds at most 20 records, most recent first, the record just saved at
\* index 0; it holds exactly the min(20, n) most recent of the n records saved.
C7_HistoryCapped ==
    /\ Len(History) <= MAX_RECENT_SCORES
    /\ Len(History) = Min(Len(savedLog), MAX_RECENT_SCORES)
    /\ \A k \in 1 .. Len(History) : History[k] = savedLog[Len(savedLog) - k + 1]
    /\ \A k \in 1 .. (Len(History) - 1) : History[k].timestamp >= History[k + 1].timestamp
    /\ savedLog # <<>> => History[1] = lastSaved

\* C7 witness: 22 games were saved, with different scores among them; the
\* history holds 20 and the two oldest are gone.
C7_Witness ==
    /\ Len(savedLog) = MAX_RECENT_SCORES + 2
    /\ Len(History) = MAX_RECENT_SCORES
    /\ History[MAX_RECENT_SCORES] = savedLog[3]
    /\ History[1].score # History[MAX_RECENT_SCORES].score

C9_PauseFreezesGame ==
    [][ state = "paused" =>
          /\ state' = "paused" =>
                UNCHANGED <<currentQuestionIndex, waitingForNextQuestion,
                            activePortalSet, scoreFields>>
          /\ state' # "paused" =>
                \/ PressEscape \/ ClickResume \/ ClickMenu
                \/ \E k \in 1 .. MaxStartCalls, batch \in Batches, js \in GameSwaps :
                      FetchDone(k, batch, js) ]_vars

\* the edges of the documented state machine
DocumentedEdges ==
    { <<"menu", "loading">>, <<"loading", "playing">>, <<"loading", "menu">>,
      <<"playing", "paused">>, <<"paused", "playing">>, <<"playing", "results">>,
      <<"results", "loading">>, <<"results", "menu">> }

\* C10: the state starts as 'menu' and every change of it follows an edge of
\* the documented machine; 'playing' is entered from 'menu' or 'results' only
\* through 'loading', and 'results' only from 'playing'.
C10_DocumentedEdges ==
    /\ state = "menu"
    /\ [][ state' # state => <<state, state'>> \in DocumentedEdges ]_vars

\* C11: whenever startGame fails (here: the batch is empty and
\* spawnNextPortals throws) the game ends in state 'menu' with the menu
\* screen shown, never in state 'playing' without a live question.
C11_FailureReturnsToMenu ==
    [][ \A k \in 1 .. MaxStartCalls, js \in GameSwaps :
          FetchDone(k, <<>>, js) => state' = "menu" /\ uiScreen' = "menu" ]_vars

\* C17: in every reachable state 0 <= currentQuestionIndex <= questions.length.
C17_IndexInBounds ==
    /\ 0 <= currentQuestionIndex
    /\ currentQuestionIndex <= Len(questions)

C16_StorageFailureContained ==
    [][ \A outcome \in StorageOutcomes :
          (SettleTimer(outcome[1], outcome[2]) /\ state' = "results") =>
              /\ uiScreen' = "results"
              /\ lastSaved' = GameScoreRecord ]_vars

\* C19: the record returned by saveGame, and put at the head of the history
\* when the write succeeds, carries the tracker's values at save time: score,
\* totalQuestions, percentage = getPercentage() and wrongAnswers; 2 correct
\* and 1 wrong over 3 questions give percentage 67 and one wrong answer, and
\* 7 of 10 gives a saved percentage of 70.
C19_RecordCarriesSession ==
    [][ \A outcome \in StorageOutcomes :
          RecordSaveGame(outcome[1], outcome[2]) =>
              /\ lastSaved'.score = currentScore
              /\ lastSaved'.totalQuestions = totalQuestions
              /\ lastSaved'.percentage = GetPercentage
              /\ lastSaved'.wrongAnswers = wrongAnswers
              /\ outcome[2] => History'[1] = lastSaved'
              /\ (answeredQuestions = 3 /\ currentScore = 2) =>
                     /\ Len(lastSaved'.wrongAnswers) = 1
                     /\ lastSaved'.percentage = 67
              /\ (answeredQuestions = 10 /\ currentScore = 7) =>
                     lastSaved'.percentage = 70 ]_vars

\* C19 witness: a session of 10 questions was saved after 7 correct and 3
\* wrong answers and its record, with percentage 70, heads the history.
C19_Witness ==
    /\ savedLog # <<>>
    /\ lastSaved.score = 7
    /\ lastSaved.totalQuestions = 10
    /\ Len(lastSaved.wrongAnswers) = 3
    /\ lastSaved.percentage = 70
    /\ History # <<>>
    /\ History[1] = lastSaved

\* a question as the game loop needs it: three answers, correctIndex in 0..2
Shaped(q) == Len(q.answers) = 3 /\ q.correctIndex \in 0 .. 2

\* C12: every question fetchQuestions resolves with has exactly 3 answers and
\* a correctIndex in 0..2, and a network batch with a malformed item is
\* discarded whole in favour of the offline bank.
C12_BatchValidated ==
    (fetchOut # NoRecord /\ fetchOut.outcome = "resolved") =>
        /\ \A i \in DOMAIN fetchOut.questions : Shaped(fetchOut.questions[i])
        /\ (/\ ~fetchIn.offline
            /\ Accepts(fetchIn.response)
            /\ \E i \in DOMAIN fetchIn.response.questions.items :
                    ~Shaped(fetchIn.response.questions.items[i]))
           => fetchOut.source = "offline"

\* C13: fetchQuestions never rejects: a request that throws, a status that is
\* not 2xx and a body without a questions array all resolve with questions of
\* the offline bank, and forced offline mode makes no network call.
C13_NeverRejects ==
    fetchOut # NoRecord =>
        /\ fetchOut.outcome = "resolved"
        /\ fetchIn.offline => fetchOut.networkCalls = 0
        /\ fetchIn.response \in {NetworkThrows, NotOk, NoQuestions, QuestionsString}
               => fetchOut.source = "offline"

\* C14: the offline fallback returns min(count, pool size) questions, all
\* distinct, all of one pool: the pool of the normalised topic if there is
\* one, the pool of some available topic otherwise.
C14_OfflineBatch ==
    (fetchOut # NoRecord /\ fetchOut.source = "offline") =>
        /\ fetchOut.outcome = "resolved"
        /\ Len(fetchOut.questions) = Min(fetchIn.request.count, PoolSize)
        /\ \A i, j \in DOMAIN fetchOut.questions :
               i # j => fetchOut.questions[i] # fetchOut.questions[j]
        /\ \E k \in DOMAIN OwnKeys :
               /\ Range(fetchOut.questions) \subseteq Range(Pool(k))
               /\ TopicKey(fetchIn.request.topic) \in Range(OwnKeys)
                      => OwnKeys[k] = TopicKey(fetchIn.request.topic)

\* C15: at most one chat exchange is in flight, and a sendMessage call made
\* while isStreaming is true only calls onError: it sends no request, adds
\* nothing to conversationHistory, queues nothing and leaves the exchange in
\* flight and the busy flag as they are.
C15_OneExchangeInFlight ==
    /\ [](Len(exchanges) <= 1)
    /\ [][ \A message \in ChatMessages :
              (SendMessage(message) /\ isStreaming) =>
                  /\ chatCalls'.onError = chatCalls.onError + 1
                  /\ chatCalls'.requests = chatCalls.requests
                  /\ conversationHistory' = conversationHistory
                  /\ exchanges' = exchanges
                  /\ isStreaming' ]_vars

\* a second sendMessage was turned away while the first is still streaming
C15_Witness ==
    /\ chatCalls.sendMessage = 2
    /\ chatCalls.requests = 1
    /\ chatCalls.onError = 1
    /\ isStreaming
    /\ Len(exchanges) = 1
    /\ exchanges[1].phase = "read"

\* C18: the proxy answers invalid input with a 4xx status and a JSON {error}
\* body before any call to the language model (a questions request without
\* topic, a chat request without message, a body that is no JSON), and a
\* request that is neither POST nor OPTIONS with 405.
C18_InvalidInputRejected ==
    proxyOut # NoRecord =>
        LET request == proxyIn.request
        IN  /\ request.method \notin {"POST", "OPTIONS"} => proxyOut.status = 405
            /\ (/\ request.method = "POST"
                /\ \/ request.body.kind = "text"
                   \/ request.body.kind = "object" /\ request.pathname = "/chat"
                          /\ request.body.message = ""
                   \/ request.body.kind = "object" /\ request.pathname # "/chat"
                          /\ request.body.topic = "")
               => /\ proxyOut.status \in 400 .. 499
                  /\ proxyOut.body = "error"
                  /\ proxyOut.modelCalls = 0

\* a tick in which checkPortalCollision calls handlePortalPassed
IsCrossing == IsTick /\ ~waitingForNextQuestion /\ waitingForNextQuestion'

\* C21: handlePortalPassed never runs while a lane-change animation is in
\* progress: at every crossing the player's isMoving flag is FALSE.
C21_CrossingAfterAnimation == [][ IsCrossing => ~isMoving ]_vars

\* C22: currentLane is always 0, 1 or 2, so at every crossing a portal of the
\* set stands in the player's lane and a wrong answer is never recorded with
\* the answer text 'None'.
C22_SelectedPortalExists ==
    /\ [](currentLane \in 0 .. 2)
    /\ [][ IsCrossing =>
              /\ SelectedIdx(portalHeap[activePortalSet].portals, currentLane) # {}
              /\ \A k \in DOMAIN wrongAnswers' : wrongAnswers'[k].yourAnswer # "None" ]_vars

\* C23: while a question fetch is outstanding no tick changes the game: the
\* portals and their positions, the score, currentQuestionIndex and the
\* active portal set stay as they are, from whatever state the start or
\* restart request was issued.
C23_LoadingFreezesGame ==
    [][ (pendingFetches # <<>> /\ IsTick) =>
            UNCHANGED <<portalVars, scoreVars, currentQuestionIndex, activePortalSet,
                        waitingForNextQuestion, nextPortalSpawnZ>> ]_vars

\* the menu is shown after backToMenu (or at the start) and no start request
\* has been made since
AtMenu == state = "menu" /\ pendingFetches = <<>>

\* C24: after backToMenu no portal is live and, until the next start
\* request, Game.state stays 'menu' and nothing of the abandoned session
\* happens: no results screen, no saveGame call, no change of
\* currentQuestionIndex, even with a settle timer of that session pending.
C24_MenuDiscardsSession ==
    /\ [](AtMenu => activePortals = <<>> /\ activePortalSet = NoPortals)
    /\ [][ (AtMenu /\ pendingFetches' = <<>>) =>
              /\ state' = "menu"
              /\ uiScreen' # "results"
              /\ sessionSaves' = sessionSaves
              /\ savedLog' = savedLog
              /\ currentQuestionIndex' = currentQuestionIndex ]_vars

\* C25: when a session enters 'results' every question of it has been
\* resolved exactly once: answeredQuestions = totalQuestions =
\* questions.length, also when a settle timer of an earlier crossing was
\* pending across a restart or a return to the menu.
C25_ResultsAfterAllQuestions ==
    [][ (state # "results" /\ state' = "results") =>
            /\ answeredQuestions' = totalQuestions'
            /\ totalQuestions' = Len(questions')
            /\ IsGameComplete' ]_vars

\* C26: every accepted sendMessage call ends, however its exchange ends
\* ([DONE] line, stream closed with or without content, status not ok,
\* missing body, read error), with exactly one call of onComplete or
\* onError and with isStreaming FALSE.
C26_ExchangeEndsWithOneCallback ==
    [][ Len(exchanges') < Len(exchanges) =>
            /\ chatCalls'.onComplete + chatCalls'.onError =
                   chatCalls.onComplete + chatCalls.onError + 1
            /\ ~isStreaming' ]_vars

\* C27: whenever no chat exchange is in flight, conversationHistory is a
\* sequence of (user, assistant) pairs in strict alternation that starts
\* with a user message, for any interleaving of sendMessage, stream events
\* and clearHistory.
C27_HistoryAlternates ==
    exchanges = <<>> =>
        /\ Len(conversationHistory) % 2 = 0
        /\ \A i \in DOMAIN conversationHistory :
               conversationHistory[i].role = IF i % 2 = 1 THEN "user" ELSE "assistant"

\* C28: the start request issued by restartGame carries the topic, the
\* difficulty and the number of questions of the start request before it.
C28_RestartKeepsSettings ==
    [][ ClickRestart =>
            LET request == pendingFetches'[Len(pendingFetches')]
            IN  /\ request.topic = currentTopic
                /\ request.difficulty = currentDifficulty
                /\ request.count = questionsPerGame ]_vars

\* C29: every portal set is spawned strictly ahead of the player, and the
\* distance between the player and a newly spawned set does not grow with
\* the number of questions already asked: it is never more than that of the
\* first set of a session.
C29_SpawnDistanceFixed ==
    [][ (activePortalSet' # NoPortals /\ activePortalSet' # activePortalSet) =>
            /\ portalHeap'[activePortalSet'].z > PlayerZ * Milli
            /\ portalHeap'[activePortalSet'].z - PlayerZ * Milli
                   <= (FirstSpawnZ - PlayerZ) * Milli ]_vars

\* the portal sets of the PortalManager that have not been revealed
Unresolved == {id \in Range(activePortals) : ~portalHeap[id].revealed}

\* C30: at most one unrevealed portal set is live and it is the set
\* Game.activePortalSet refers to; a tick spawns a set only when
\* activePortalSet is empty, the freeze flag is unset and
\* currentQuestionIndex < questions.length, and the set spawned carries the
\* answers of questions[currentQuestionIndex].
C30_OneUnresolvedSet ==
    /\ [](Unresolved \subseteq {activePortalSet} /\ Cardinality(Unresolved) <= 1)
    /\ [][ (IsTick /\ activePortalSet' # activePortalSet) =>
              /\ activePortalSet = NoPortals
              /\ ~waitingForNextQuestion
              /\ currentQuestionIndex < Len(questions)
              /\ LET portals == portalHeap'[activePortalSet'].portals
                 IN  \A text \in Texts :
                        Count([k \in 1 .. 3 |-> portals[k].answerText], text) =
                        Count(questions[currentQuestionIndex + 1].answers, text) ]_vars

============================================================================
